---------------------------- MODULE Spec2Model ----------------------------
(***************************************************************************)
(* Model of the two system-information reporters of the repository:        *)
(*   src/sys-info-linux.py  (probes reading /etc/os-release, /proc/...)    *)
(*   src/sys-info-win.py    (probes calling psutil / platform / os)        *)
(*                                                                         *)
(* Text is a sequence of one-character strings, so that str.split,         *)
(* str.strip, int() and float() are computed the way Python computes them. *)
(* An exception is an outcome value: every operator that models a call     *)
(* that can raise returns a record with an `exc` field.                    *)
(***************************************************************************)
EXTENDS Integers, Sequences, FiniteSets, TLC

VARIABLES
    plat,       \* which reporter is run: "linux" | "windows"
    host,       \* the host it runs on: /proc/meminfo, whether psutil is installed
    pc,         \* position of main(): label of the next statement
    locals,     \* main()'s local variables that a later statement reads
    out,        \* standard output: the printed lines, each by its field name
                \* (the RAM line with its numbers)
    calls,      \* the probes and library queries invoked so far, in order
    exit_code,  \* -1 while running, 0 on normal return, 1 after a traceback
    probe,      \* name of the probe applied on its own ("none" in a run)
    arg,        \* the ambient inputs that probe call saw
    ret         \* what that probe call returned

vars == <<plat, host, pc, locals, out, calls, exit_code, probe, arg, ret>>

----------------------------------------------------------------------------
(* Bounds of the model                                                      *)

MaxLoadFields == 4
MaxMemLines == 3
MaxOsLines == 3
MaxSwapLines == 2
MaxMounts == 2
MaxPartitions == 2

----------------------------------------------------------------------------
(* Python text primitives                                                   *)

WS == {" ", "\t", "\n"}

Digits == {"0", "1", "2", "3", "4", "5", "6", "7", "8", "9"}

DigitVal(c) ==
    CASE c = "0" -> 0 [] c = "1" -> 1 [] c = "2" -> 2 [] c = "3" -> 3
      [] c = "4" -> 4 [] c = "5" -> 5 [] c = "6" -> 6 [] c = "7" -> 7
      [] c = "8" -> 8 [] c = "9" -> 9

Min(a, b) == IF a < b THEN a ELSE b

\* sep in s
Contains(s, c) == \E i \in 1..Len(s) : s[i] = c

\* s.find(c) + 1 : the first position of c, 0 when absent
IndexOf(s, c) ==
    IF Contains(s, c) THEN CHOOSE i \in 1..Len(s) :
                               s[i] = c /\ \A j \in 1..(i - 1) : s[j] # c
    ELSE 0

\* s.split(c, 1)
SplitOnce(s, c) ==
    LET i == IndexOf(s, c)
    IN  IF i = 0 THEN <<s>>
        ELSE <<SubSeq(s, 1, i - 1), SubSeq(s, i + 1, Len(s))>>

\* The k-th smallest member of a finite set of integers
Nth(S, k) == CHOOSE i \in S : Cardinality({j \in S : j < i}) = k - 1

\* s.split() : the maximal runs of non-whitespace characters
Split(s) ==
    LET starts == {i \in 1..Len(s) : s[i] \notin WS /\ (i = 1 \/ s[i - 1] \in WS)}
        EndOf(i) == CHOOSE j \in i..Len(s) :
                        /\ \A k \in i..j : s[k] \notin WS
                        /\ (j = Len(s) \/ s[j + 1] \in WS)
    IN  [k \in 1..Cardinality(starts) |->
            SubSeq(s, Nth(starts, k), EndOf(Nth(starts, k)))]

\* s.split(c) : every piece between separators, empty pieces included
SplitSep(s, c) ==
    LET seps == {i \in 1..Len(s) : s[i] = c}
        n    == Cardinality(seps)
    IN  [k \in 1..(n + 1) |->
            SubSeq(s, IF k = 1 THEN 1 ELSE Nth(seps, k - 1) + 1,
                      IF k = n + 1 THEN Len(s) ELSE Nth(seps, k) - 1)]

\* `for line in f` and f.readlines() : lines keep their newline, and text
\* after the last newline is a last line
FileLines(s) ==
    LET ends == {i \in 1..Len(s) : s[i] = "\n" \/ i = Len(s)}
    IN  [k \in 1..Cardinality(ends) |->
            SubSeq(s, IF k = 1 THEN 1 ELSE Nth(ends, k - 1) + 1, Nth(ends, k))]

LStrip(s, chars) ==
    LET keep == {i \in 1..Len(s) : s[i] \notin chars}
    IN  IF keep = {} THEN <<>> ELSE SubSeq(s, Nth(keep, 1), Len(s))

RStrip(s, chars) ==
    LET keep == {i \in 1..Len(s) : s[i] \notin chars}
    IN  IF keep = {} THEN <<>> ELSE SubSeq(s, 1, Nth(keep, Cardinality(keep)))

\* s.strip(chars)
StripChars(s, chars) == RStrip(LStrip(s, chars), chars)

\* s.strip()
Strip(s) == StripChars(s, WS)

\* s.startswith(p)
StartsWith(s, p) == Len(s) >= Len(p) /\ SubSeq(s, 1, Len(p)) = p

RECURSIVE Concat(_)
Concat(ss) == IF ss = <<>> THEN <<>> ELSE Head(ss) \o Concat(Tail(ss))

RECURSIVE DigitsValue(_, _)
DigitsValue(s, acc) ==
    IF s = <<>> THEN acc ELSE DigitsValue(Tail(s), acc * 10 + DigitVal(Head(s)))

\* int(s) : optional surrounding whitespace, optional sign, decimal digits
\* with single underscores between digits; anything else is a ValueError
PyInt(s0) ==
    LET s    == Strip(s0)
        neg  == s # <<>> /\ Head(s) = "-"
        body == IF s # <<>> /\ Head(s) \in {"+", "-"} THEN Tail(s) ELSE s
        digs == SelectSeq(body, LAMBDA c : c # "_")
        wellFormed ==
            /\ body # <<>>
            /\ \A i \in 1..Len(body) : body[i] \in Digits \cup {"_"}
            /\ body[1] # "_" /\ body[Len(body)] # "_"
            /\ \A i \in 1..(Len(body) - 1) : ~(body[i] = "_" /\ body[i + 1] = "_")
    IN  IF wellFormed
        THEN [exc |-> "none",
              val |-> IF neg THEN 0 - DigitsValue(digs, 0) ELSE DigitsValue(digs, 0)]
        ELSE [exc |-> "ValueError", val |-> 0]

RECURSIVE NormFloat(_, _)
NormFloat(num, frac) ==
    IF frac > 0 /\ num % 10 = 0 THEN NormFloat(num \div 10, frac - 1)
    ELSE [num |-> num, frac |-> frac]

\* The float written num / 10^frac, trailing zeros removed (0.10 = 0.1)
Float(num, frac) == NormFloat(num, frac)

\* float(s) for the decimal notations a load-average file is written in:
\* [sign] digits [ "." [digits] ]  or  [sign] "." digits.  Every other token
\* of the model's alphabet (letters, "/", ":") is a ValueError, as in Python.
PyFloat(s0) ==
    LET s     == Strip(s0)
        neg   == s # <<>> /\ Head(s) = "-"
        body  == IF s # <<>> /\ Head(s) \in {"+", "-"} THEN Tail(s) ELSE s
        parts == SplitOnce(body, ".")
        ip    == parts[1]
        fp    == IF Len(parts) = 2 THEN parts[2] ELSE <<>>
        wellFormed ==
            /\ \A i \in 1..Len(ip) : ip[i] \in Digits
            /\ \A i \in 1..Len(fp) : fp[i] \in Digits
            /\ ip \o fp # <<>>
        mag   == DigitsValue(ip \o fp, 0)
    IN  IF wellFormed
        THEN [exc |-> "none",
              val |-> Float(IF neg THEN 0 - mag ELSE mag, Len(fp))]
        ELSE [exc |-> "ValueError", val |-> Float(0, 0)]

\* dict helpers: a dict is a function whose domain is its key set
EmptyDict == [k \in {} |-> 0]

DictSet(d, k, v) == [x \in (DOMAIN d) \cup {k} |-> IF x = k THEN v ELSE d[x]]

\* d.get(k, default)
DictGet(d, k, default) == IF k \in DOMAIN d THEN d[k] ELSE default

\* All sequences over S of length 0..n
SeqsUpTo(S, n) == UNION {[1..k -> S] : k \in 0..n}

----------------------------------------------------------------------------
(* /proc/loadavg and get_load_average                                       *)

\* The fields a load-average file is built from in the model: a decimal
\* sample and the running/total field.
LoadTokens ==
    { <<"0", ".", "1", "0">>, <<"1", "/", "2", "0", "0">> }

JoinFields(fields) ==
    Concat([i \in 1..Len(fields) |->
              IF i < Len(fields) THEN Append(fields[i], " ") ELSE fields[i]])

\* A file as open() sees it: it opens or raises, and then has a content.
\* The content is the fields joined by a space and ended by a newline; a
\* file with no field is the empty file.
LoadAvgFiles ==
    {[open_ok |-> FALSE, content |-> <<>>]} \cup
    {[open_ok |-> TRUE,
      content |-> IF f = <<>> THEN <<>> ELSE Append(JoinFields(f), "\n")] :
        f \in SeqsUpTo(LoadTokens, MaxLoadFields)}

ZeroLoad == <<Float(0, 0), Float(0, 0), Float(0, 0)>>

get_load_average(file) ==
    IF ~file.open_ok THEN ZeroLoad
    ELSE LET load_avg == Split(Strip(file.content))
             first    == SubSeq(load_avg, 1, Min(3, Len(load_avg)))
             parsed   == [i \in 1..Len(first) |-> PyFloat(first[i])]
         IN  IF \E i \in 1..Len(first) : parsed[i].exc # "none"
             THEN ZeroLoad
             ELSE [i \in 1..Len(first) |-> parsed[i].val]

----------------------------------------------------------------------------
(* /proc/meminfo and get_memory_info (Linux)                                *)

k_MemTotal == <<"M", "e", "m", "T", "o", "t", "a", "l">>
k_MemAvailable == <<"M", "e", "m", "A", "v", "a", "i", "l", "a", "b", "l", "e">>
k_MemFree == <<"M", "e", "m", "F", "r", "e", "e">>
k_SwapFree == <<"S", "w", "a", "p", "F", "r", "e", "e">>
k_VmallocTotal == <<"V", "m", "a", "l", "l", "o", "c", "T", "o", "t", "a", "l">>
k_Dirty == <<"D", "i", "r", "t", "y">>

\* "Key:<pad>value kB\n", the way the kernel writes a counter
MemLine(key, pad, value) ==
    key \o <<":">> \o pad \o value \o <<" ", "k", "B", "\n">>

\* The lines a counters file is built from in the model, in the order the
\* kernel writes them.  The Dirty line has no integer after the colon:
\* int() raises ValueError on it.
MemLines ==
    << MemLine(k_MemTotal, <<" ", " ", " ">>, <<"1", "6", "0", "0", "0", "0", "0", "0">>),
       MemLine(k_MemFree, <<"\t">>, <<"4", "0", "0", "0", "0", "0", "0">>),
       MemLine(k_MemAvailable, <<" ">>, <<"8", "0", "0", "0", "0", "0", "0">>),
       MemLine(k_SwapFree, <<" ">>, <<"2", "0", "9", "7", "1", "4", "8">>),
       MemLine(k_Dirty, <<" ">>, <<"n", "/", "a">>),
       MemLine(k_VmallocTotal, <<" ">>, <<"1", "2", "2", "8", "8", "0">>) >>

\* A counters file: unreadable, or at most MaxMemLines of these lines
MemInfoFiles ==
    {[open_ok |-> FALSE, content |-> <<>>]} \cup
    {[open_ok |-> TRUE,
      content |-> Concat([k \in 1..Cardinality(I) |-> MemLines[Nth(I, k)]])] :
        I \in {J \in SUBSET (1..Len(MemLines)) : Cardinality(J) <= MaxMemLines}}

\* The body of `for line in f`; an exception ends the loop and the function
\* returns what mem_info holds by then.
RECURSIVE meminfo_loop(_, _, _)
meminfo_loop(lines, i, mem_info) ==
    IF i > Len(lines) THEN mem_info
    ELSE LET line == lines[i]
         IN  IF ~Contains(line, ":") THEN meminfo_loop(lines, i + 1, mem_info)
             ELSE LET kv    == SplitOnce(line, ":")
                      toks  == Split(Strip(kv[2]))
                      num   == IF toks = <<>> THEN [exc |-> "IndexError", val |-> 0]
                               ELSE PyInt(toks[1])
                  IN  IF num.exc # "none" THEN mem_info
                      ELSE meminfo_loop(lines, i + 1,
                                        DictSet(mem_info, Strip(kv[1]), num.val))

get_memory_info(file) ==
    IF ~file.open_ok THEN EmptyDict
    ELSE meminfo_loop(FileLines(file.content), 1, EmptyDict)

----------------------------------------------------------------------------
(* /etc/os-release, lsb_release and get_os_info (Linux)                     *)

k_PRETTY_NAME == <<"P", "R", "E", "T", "T", "Y", "_", "N", "A", "M", "E">>
k_NAME == <<"N", "A", "M", "E">>
k_VERSION == <<"V", "E", "R", "S", "I", "O", "N">>
t_Unknown == <<"U", "n", "k", "n", "o", "w", "n">>
t_Foo == <<"F", "o", "o">>

OsReleaseLines ==
    { k_PRETTY_NAME \o <<"=", "\"">> \o t_Foo \o <<" ", "1", " ", "L", "T", "S", "\"", "\n">>,
      k_NAME \o <<"=", "\"">> \o t_Foo \o <<"\"", "\n">>,
      k_VERSION \o <<"=", "1", "\n">>,
      <<"#", " ", "o", "s", "\n">> }

\* The outcomes of subprocess.run(['lsb_release', '-d'], ...): the command
\* is absent, it exits non-zero, or it exits 0 with some standard output.
LsbOutcomes ==
    { [exc |-> "FileNotFoundError", returncode |-> 0, stdout |-> <<>>],
      [exc |-> "none", returncode |-> 1, stdout |-> <<>>],
      [exc |-> "none", returncode |-> 0,
       stdout |-> <<"D", "e", "s", "c", "r", "i", "p", "t", "i", "o", "n", ":", "\t">>
                  \o t_Foo \o <<" ", "O", "S", "\n">>],
      [exc |-> "none", returncode |-> 0, stdout |-> <<"n", "/", "a", "\n">>] }

\* What get_os_info finds: whether /etc/os-release exists, whether it can
\* be opened and read, its content, and what lsb_release does if it is run.
OsEnvs ==
    {[exists |-> FALSE, open_ok |-> FALSE, content |-> <<>>, lsb |-> l] :
        l \in LsbOutcomes} \cup
    {[exists |-> TRUE, open_ok |-> FALSE, content |-> <<>>, lsb |-> l] :
        l \in LsbOutcomes} \cup
    {[exists |-> TRUE, open_ok |-> TRUE, content |-> Concat(ls), lsb |-> l] :
        ls \in SeqsUpTo(OsReleaseLines, MaxOsLines), l \in LsbOutcomes}

\* The loop over content.split('\n') building os_info
RECURSIVE os_release_loop(_, _, _)
os_release_loop(lines, i, os_info) ==
    IF i > Len(lines) THEN os_info
    ELSE IF Contains(lines[i], "=")
         THEN LET kv == SplitOnce(lines[i], "=")
              IN  os_release_loop(lines, i + 1,
                                  DictSet(os_info, kv[1], StripChars(kv[2], {"\""})))
         ELSE os_release_loop(lines, i + 1, os_info)

parse_os_release(content) == os_release_loop(SplitSep(content, "\n"), 1, EmptyDict)

\* Lines 34-37: the lsb_release fallback; exc is what it raises, if anything
lsb_fallback(lsb) ==
    IF lsb.exc # "none" THEN [exc |-> lsb.exc, returned |-> FALSE, val |-> <<>>]
    ELSE IF lsb.returncode # 0 THEN [exc |-> "none", returned |-> FALSE, val |-> <<>>]
    ELSE LET parts == SplitOnce(lsb.stdout, ":")
         IN  IF Len(parts) < 2
             THEN [exc |-> "IndexError", returned |-> FALSE, val |-> <<>>]
             ELSE [exc |-> "none", returned |-> TRUE, val |-> Strip(parts[2])]

\* One try block around both the file stage and the command stage: whatever
\* is raised inside it, by either, goes to `except Exception: pass`.
get_os_info(env) ==
    IF env.exists /\ ~env.open_ok THEN t_Unknown
    ELSE LET os_info == IF env.exists THEN parse_os_release(env.content) ELSE EmptyDict
             fb      == lsb_fallback(env.lsb)
         IN  IF env.exists /\ k_PRETTY_NAME \in DOMAIN os_info
             THEN os_info[k_PRETTY_NAME]
             ELSE IF env.exists /\ k_NAME \in DOMAIN os_info /\ k_VERSION \in DOMAIN os_info
             THEN os_info[k_NAME] \o <<" ">> \o os_info[k_VERSION]
             ELSE IF fb.returned THEN fb.val
             ELSE t_Unknown

----------------------------------------------------------------------------
(* /proc/swaps and get_swap_info (Linux)                                    *)

SwapHeader ==
    <<"F", "i", "l", "e", "n", "a", "m", "e", "\t", "T", "y", "p", "e", "\t",
      "S", "i", "z", "e", "\t", "U", "s", "e", "d", "\t",
      "P", "r", "i", "o", "r", "i", "t", "y", "\n">>

t_partition == <<"p", "a", "r", "t", "i", "t", "i", "o", "n">>

\* The records a swap table is built from in the model: two well-formed
\* ones, one with three fields only, one whose size is not a number, and a
\* blank line.
SwapLines ==
    { <<"/", "d", "e", "v", "/", "s", "d", "a", "2", " ">> \o t_partition
        \o <<"\t", "2", "0", "9", "7", "1", "4", "8", "\t", "0", "\t", "-", "2", "\n">>,
      <<"/", "s", "w", "a", "p", " ", "f", "i", "l", "e",
        "\t", "1", "0", "4", "8", "5", "7", "6", "\t", "5", "1", "2", "\t", "-", "3", "\n">>,
      <<"/", "d", "e", "v", "/", "s", "d", "b", "2", " ">> \o t_partition
        \o <<" ", "5", "2", "4", "2", "8", "8", "\n">>,
      <<"/", "d", "e", "v", "/", "s", "d", "c", "2", " ">> \o t_partition
        \o <<" ", "n", "/", "a", " ", "0", " ", "-", "4", "\n">>,
      <<"\n">> }

SwapFiles ==
    {[open_ok |-> FALSE, content |-> <<>>], [open_ok |-> TRUE, content |-> <<>>]} \cup
    {[open_ok |-> TRUE, content |-> SwapHeader \o Concat(ls)] :
        ls \in SeqsUpTo(SwapLines, MaxSwapLines)}

\* The summing loop; int() raising ends it with the exception
RECURSIVE swap_loop(_, _, _)
swap_loop(lines, i, total_swap) ==
    IF i > Len(lines) THEN [exc |-> "none", total |-> total_swap]
    ELSE LET parts == Split(lines[i])
         IN  IF Len(parts) >= 4
             THEN LET n == PyInt(parts[3])
                  IN  IF n.exc # "none" THEN [exc |-> n.exc, total |-> 0]
                      ELSE swap_loop(lines, i + 1, total_swap + n.val)
             ELSE swap_loop(lines, i + 1, total_swap)

\* f.readlines() with the header line kept
swap_records_with_header(content) == FileLines(content)

\* f.readlines()[1:]
swap_records(content) ==
    LET all == FileLines(content) IN SubSeq(all, 2, Len(all))

\* Lines 138-146: the table is opened and its sizes summed; what this
\* stage ends with (the sum, or the exception raised on the way)
swap_total(swaps) ==
    IF ~swaps.open_ok THEN [exc |-> "OSError", total |-> 0]
    ELSE swap_loop(swap_records(swaps.content), 1, 0)

\* get_swap_info handed the counters instead of calling get_memory_info:
\* /proc/swaps is the only source it opens
get_swap_info_given(table, meminfo_file) ==
    IF table.exc # "none"
    THEN [total |-> 0, free |-> 0, reads |-> <<"/proc/swaps">>]
    ELSE [total |-> table.total,
          free  |-> DictGet(get_memory_info(meminfo_file), k_SwapFree, 0),
          reads |-> <<"/proc/swaps">>]

\* The probe from the outcome of its table stage on: an exception there
\* gives (0, 0); otherwise the memory counters are read by a call of
\* get_memory_info made here, after the sum.  Returned with the pair: the
\* data sources opened, in order.
get_swap_info(table, meminfo_file) ==
    IF table.exc # "none"
    THEN [total |-> 0, free |-> 0, reads |-> <<"/proc/swaps">>]
    ELSE [total |-> table.total,
          free  |-> DictGet(get_memory_info(meminfo_file), k_SwapFree, 0),
          reads |-> <<"/proc/swaps", "/proc/meminfo">>]

----------------------------------------------------------------------------
(* /proc/mounts, os.statvfs and get_disk_info (Linux)                       *)

GiB == 1073741824

special_fs ==
    { <<"p", "r", "o", "c">>,
      <<"s", "y", "s", "f", "s">>,
      <<"d", "e", "v", "t", "m", "p", "f", "s">>,
      <<"d", "e", "v", "p", "t", "s">>,
      <<"t", "m", "p", "f", "s">>,
      <<"c", "g", "r", "o", "u", "p">>,
      <<"s", "e", "c", "u", "r", "i", "t", "y", "f", "s">>,
      <<"c", "o", "n", "f", "i", "g", "f", "s">>,
      <<"d", "e", "b", "u", "g", "f", "s">>,
      <<"t", "r", "a", "c", "e", "f", "s">>,
      <<"p", "s", "t", "o", "r", "e">>,
      <<"e", "f", "i", "v", "a", "r", "f", "s">>,
      <<"m", "q", "u", "e", "u", "e">>,
      <<"h", "u", "g", "e", "t", "l", "b", "f", "s">>,
      <<"f", "u", "s", "e", "c", "t", "l">>,
      <<"f", "u", "s", "e", ".", "g", "v", "f", "s", "d", "-", "f", "u", "s", "e">>,
      <<"a", "u", "t", "o", "f", "s">>,
      <<"b", "i", "n", "f", "m", "t", "_", "m", "i", "s", "c">>,
      <<"n", "s", "f", "s">>,
      <<"b", "p", "f">>,
      <<"i", "s", "o", "9", "6", "6", "0">> }

\* device.startswith(('/dev/loop', 'udev', 'none'))
virtual_device(device) ==
    \/ StartsWith(device, <<"/", "d", "e", "v", "/", "l", "o", "o", "p">>)
    \/ StartsWith(device, <<"u", "d", "e", "v">>)
    \/ StartsWith(device, <<"n", "o", "n", "e">>)

t_ext4 == <<"e", "x", "t", "4">>
t_tmpfs == <<"t", "m", "p", "f", "s">>

\* The records a mount table is built from in the model: an ext4 disk, a
\* tmpfs on a disk device name, an ext4 loop device, a vfat disk, and a
\* record of three fields.
MountLines ==
    { <<"/", "d", "e", "v", "/", "s", "d", "a", "1", " ", "/", " ">> \o t_ext4
        \o <<" ", "r", "w", " ", "0", " ", "0", "\n">>,
      <<"/", "d", "e", "v", "/", "s", "d", "a", "3", " ", "/", "t", "m", "p", " ">>
        \o t_tmpfs \o <<" ", "r", "w", " ", "0", " ", "0", "\n">>,
      <<"/", "d", "e", "v", "/", "l", "o", "o", "p", "0", " ", "/", "s", "n", "a", "p", " ">>
        \o t_ext4 \o <<" ", "r", "o", " ", "0", " ", "0", "\n">>,
      <<"/", "d", "e", "v", "/", "s", "d", "b", "1", " ", "/", "m", "n", "t", " ",
        "v", "f", "a", "t", " ", "r", "w", " ", "0", " ", "0", "\n">>,
      <<"/", "d", "e", "v", "/", "s", "d", "c", "1", " ", "/", "s", "r", "v", " ">>
        \o t_ext4 \o <<"\n">> }

Statvfs(blocks, bfree, frsize) ==
    [exc |-> "none", f_blocks |-> blocks, f_bfree |-> bfree, f_frsize |-> frsize]

\* What os.statvfs(mount_point) does: it raises OSError, or returns the
\* statistics of a file system, whose free blocks are among its blocks.
\* Sizes: just under 0.05 GB, 0.19 GB, exactly 0.25 GB, 50 GB.
StatvfsOutcomes ==
    { [exc |-> "OSError", f_blocks |-> 0, f_bfree |-> 0, f_frsize |-> 4096],
      Statvfs(13107, 13107, 4096),
      Statvfs(49807, 49807, 4096),
      Statvfs(65536, 39322, 4096),
      Statvfs(13107200, 6553600, 4096) }

\* The inputs of one get_disk_info call: the mount table as open() finds
\* it, and for every record what os.statvfs does if called for it.
DiskEnvs ==
    {[mounts |-> [open_ok |-> FALSE, content |-> <<>>], statvfs |-> <<>>]} \cup
    UNION {{[mounts |-> [open_ok |-> TRUE, content |-> Concat(ls)], statvfs |-> sv] :
               sv \in [1..Len(ls) -> StatvfsOutcomes]} :
           ls \in SeqsUpTo(MountLines, MaxMounts)}

\* round(n / d, 1) in tenths: to the nearest tenth, an exact half to the
\* even tenth (Python rounds the exact value of the float, and n / d is
\* exact here because d is a power of two)
RoundTenths(n, d) ==
    LET q == (n * 10) \div d
        r == (n * 10) % d
    IN  IF 2 * r < d THEN q
        ELSE IF 2 * r > d THEN q + 1
        ELSE IF q % 2 = 0 THEN q ELSE q + 1

\* The total cut to a tenth instead of rounded
total_gb_truncated(stat) == (stat.f_blocks * 10) \div (GiB \div stat.f_frsize)

\* (count * f_frsize) / (1024 ** 3) is count / (GiB / f_frsize) when
\* f_frsize divides 2^30; the quotient form keeps the numbers in range.
\* Lines 108 and 120: round(total_gb, 1), in tenths of a GB
total_gb(stat) == RoundTenths(stat.f_blocks, GiB \div stat.f_frsize)

\* Lines 110 and 121: round(free_gb, 1), in tenths of a GB
free_gb(stat) == RoundTenths(stat.f_bfree, GiB \div stat.f_frsize)

\* A threshold that drops only the empty file systems
below_threshold_empty(stat) == stat.f_blocks = 0

\* Line 113: total_gb < 0.1, on the unrounded value
below_threshold(stat) == stat.f_blocks * 10 < GiB \div stat.f_frsize

\* The loop body without the inner try: a failing os.statvfs leaves it
disk_item_unguarded(line, st) ==
    LET parts == Split(line)
    IN  IF Len(parts) < 4 THEN [kind |-> "skip"]
        ELSE IF parts[3] \in special_fs THEN [kind |-> "skip"]
        ELSE IF virtual_device(parts[1]) THEN [kind |-> "skip"]
        ELSE IF st.exc # "none" THEN [kind |-> "raise"]
        ELSE IF st.f_blocks * 10 < GiB \div st.f_frsize THEN [kind |-> "skip"]
        ELSE [kind |-> "emit",
              entry |-> [mount_point |-> parts[2], fs_type |-> parts[3],
                         total_gb |-> RoundTenths(st.f_blocks, GiB \div st.f_frsize),
                         free_gb |-> RoundTenths(st.f_bfree, GiB \div st.f_frsize)]]

\* The loop body for one record: what it does with the record.
disk_item(line, st) ==
    LET parts == Split(line)
    IN  IF Len(parts) < 4 THEN [kind |-> "skip"]
        ELSE LET device      == parts[1]
                 mount_point == parts[2]
                 fs_type     == parts[3]
             IN  IF fs_type \in special_fs THEN [kind |-> "skip"]
                 ELSE IF virtual_device(device) THEN [kind |-> "skip"]
                 ELSE IF st.exc # "none" THEN [kind |-> "skip"]  \* except Exception: continue
                 ELSE IF below_threshold(st) THEN [kind |-> "skip"]
                 ELSE [kind |-> "emit",
                       entry |-> [mount_point |-> mount_point, fs_type |-> fs_type,
                                  total_gb |-> total_gb(st), free_gb |-> free_gb(st)]]

\* `for line in f` inside the outer try: an exception that leaves the loop
\* body ends the loop and drives is returned as it stands.
RECURSIVE disk_loop(_, _, _, _)
disk_loop(lines, statvfs, i, drives) ==
    IF i > Len(lines) THEN drives
    ELSE LET it == disk_item(lines[i], statvfs[i])
         IN  CASE it.kind = "skip"  -> disk_loop(lines, statvfs, i + 1, drives)
               [] it.kind = "emit"  -> disk_loop(lines, statvfs, i + 1,
                                                 Append(drives, it.entry))
               [] it.kind = "raise" -> drives

get_disk_info(env) ==
    IF ~env.mounts.open_ok THEN <<>>
    ELSE disk_loop(FileLines(env.mounts.content), env.statvfs, 1, <<>>)

----------------------------------------------------------------------------
(* Exceptions (Windows probes name the classes they catch)                  *)

\* The built-in classes the probes name, each with its base classes
Bases(exc) ==
    CASE exc \in {"PermissionError", "FileNotFoundError"} -> {exc, "OSError", "Exception"}
      [] OTHER -> {exc, "Exception"}

\* `except (classes)` catches exc
Catches(classes, exc) == Bases(exc) \cap classes # {}

----------------------------------------------------------------------------
(* psutil.disk_partitions, psutil.disk_usage and get_drives_info (Windows)  *)

\* s contains p as a substring: `p in s`
IsSubstring(p, s) ==
    \E i \in 0..(Len(s) - Len(p)) : SubSeq(s, i + 1, i + Len(p)) = p

t_cdrom == <<"c", "d", "r", "o", "m">>

Partition(device, fstype, opts) ==
    [device |-> device, mountpoint |-> device, fstype |-> fstype, opts |-> opts]

\* A fixed disk, an optical drive, a removable disk, and an entry with no
\* device.
Partitions ==
    { Partition(<<"C", ":", "\\">>, <<"N", "T", "F", "S">>,
                <<"r", "w", ",", "f", "i", "x", "e", "d">>),
      Partition(<<"D", ":", "\\">>, <<"C", "D", "F", "S">>,
                <<"r", "o", ",">> \o t_cdrom),
      Partition(<<"E", ":", "\\">>, <<"F", "A", "T", "3", "2">>,
                <<"r", "w", ",", "r", "e", "m", "o", "v", "a", "b", "l", "e">>),
      Partition(<<>>, <<>>, <<>>) }

\* What psutil.disk_usage(mountpoint) does: it raises one of the OS errors,
\* or returns byte counts with free <= total.
UsageOutcomes ==
    { [exc |-> "PermissionError", total |-> 0, free |-> 0],
      [exc |-> "FileNotFoundError", total |-> 0, free |-> 0],
      [exc |-> "none", total |-> GiB + (GiB - 1), free |-> GiB - 1],
      [exc |-> "none", total |-> GiB + 512, free |-> GiB] }

DriveEnvs ==
    {[exc |-> "OSError", partitions |-> <<>>, usage |-> <<>>]} \cup
    UNION {{[exc |-> "none", partitions |-> ps, usage |-> us] :
               us \in [1..Len(ps) -> UsageOutcomes]} :
           ps \in SeqsUpTo(Partitions, MaxPartitions)}

\* The loop body for one partition (lines 119-139)
drive_item(partition, usage) ==
    IF IsSubstring(t_cdrom, partition.opts) \/ partition.device = <<>>
    THEN [kind |-> "skip", log |-> <<>>]
    ELSE IF usage.exc # "none"
    THEN IF Catches({"OSError", "PermissionError", "FileNotFoundError"}, usage.exc)
         THEN [kind |-> "skip", log |-> <<"Error reading drive">>]
         ELSE [kind |-> "raise", exc |-> usage.exc, log |-> <<>>]
    ELSE [kind |-> "emit", log |-> <<>>,
          entry |-> [drive |-> partition.device, fs_type |-> partition.fstype,
                     total_gb |-> usage.total \div GiB,
                     free_gb |-> usage.free \div GiB]]

\* The for loop inside the outer try (lines 116-142): an exception leaving
\* the body is caught by `except (OSError, AttributeError)` if it is one of
\* those, and leaves the probe otherwise.
RECURSIVE drives_loop(_, _, _, _, _)
drives_loop(ps, us, i, drives, log) ==
    IF i > Len(ps) THEN [exc |-> "none", drives |-> drives, log |-> log]
    ELSE LET it == drive_item(ps[i], us[i])
         IN  CASE it.kind = "skip" ->
                     drives_loop(ps, us, i + 1, drives, log \o it.log)
               [] it.kind = "emit" ->
                     drives_loop(ps, us, i + 1, Append(drives, it.entry), log)
               [] it.kind = "raise" ->
                     IF Catches({"OSError", "AttributeError"}, it.exc)
                     THEN [exc |-> "none", drives |-> drives,
                           log |-> Append(log, "Error getting drives info")]
                     ELSE [exc |-> it.exc, drives |-> drives, log |-> log]

\* Returns the list, the lines it printed, and the exception that left it
get_drives_info(env) ==
    IF env.exc # "none"
    THEN IF Catches({"OSError", "AttributeError"}, env.exc)
         THEN [exc |-> "none", drives |-> <<>>, log |-> <<"Error getting drives info">>]
         ELSE [exc |-> env.exc, drives |-> <<>>, log |-> <<>>]
    ELSE drives_loop(env.partitions, env.usage, 1, <<>>, <<>>)

----------------------------------------------------------------------------
(* get_processor_count (Windows)                                            *)

\* An optional count: None, or an integer
None == [none |-> TRUE, n |-> 0]

Some(n) == [none |-> FALSE, n |-> n]

\* What psutil.cpu_count(logical=False) does: it raises, or returns None
\* (the count could not be determined), or returns the number of cores.
PhysOutcomes ==
    { [exc |-> "NotImplementedError", val |-> None],
      [exc |-> "none", val |-> None],
      [exc |-> "none", val |-> Some(4)] }

\* What os.cpu_count() does: None, or the number of logical processors
LogicalOutcomes ==
    { [exc |-> "none", val |-> None], [exc |-> "none", val |-> Some(8)] }

\* `x or 0`
OrZero(x) == IF x.none \/ x.n = 0 THEN 0 ELSE x.n

\* Returns the count and the queries it made, in order
get_processor_count(phys, logical) ==
    IF phys.exc = "none"
    THEN [val |-> OrZero(phys.val), queries |-> <<"psutil.cpu_count">>]
    ELSE IF Catches({"OSError", "AttributeError", "NotImplementedError"}, phys.exc)
    THEN IF logical.exc = "none"
         THEN [val |-> OrZero(logical.val),
               queries |-> <<"psutil.cpu_count", "os.cpu_count">>]
         ELSE [val |-> 0, queries |-> <<"psutil.cpu_count", "os.cpu_count">>]
    ELSE [val |-> 0, queries |-> <<"psutil.cpu_count">>]

----------------------------------------------------------------------------
(* The remaining Windows probes                                             *)

LowerChar(c) ==
    CASE c = "A" -> "a" [] c = "B" -> "b" [] c = "C" -> "c" [] c = "D" -> "d"
      [] c = "E" -> "e" [] c = "F" -> "f" [] c = "G" -> "g" [] c = "H" -> "h"
      [] c = "I" -> "i" [] c = "J" -> "j" [] c = "K" -> "k" [] c = "L" -> "l"
      [] c = "M" -> "m" [] c = "N" -> "n" [] c = "O" -> "o" [] c = "P" -> "p"
      [] c = "Q" -> "q" [] c = "R" -> "r" [] c = "S" -> "s" [] c = "T" -> "t"
      [] c = "U" -> "u" [] c = "V" -> "v" [] c = "W" -> "w" [] c = "X" -> "x"
      [] c = "Y" -> "y" [] c = "Z" -> "z" [] OTHER -> c

\* s.lower()
Lower(s) == [i \in 1..Len(s) |-> LowerChar(s[i])]

t_Windows == <<"W", "i", "n", "d", "o", "w", "s">>

\* version_map, in the order its items are visited
version_map ==
    << [key |-> <<"1", "0">>,
        value |-> t_Windows \o <<" ", "1", "0", " ", "o", "r", " ", "G", "r", "e", "a", "t", "e", "r">>],
       [key |-> <<"8">>, value |-> t_Windows \o <<" ", "8">>],
       [key |-> <<"7">>, value |-> t_Windows \o <<" ", "7">>],
       [key |-> <<"v", "i", "s", "t", "a">>,
        value |-> t_Windows \o <<" ", "V", "i", "s", "t", "a">>] >>

\* What the platform module reports: system, release and version
Platforms ==
    {[system |-> <<"L", "i", "n", "u", "x">>, release |-> <<"6", ".", "8">>,
      version |-> <<"#", "1">>]} \cup
    {[system |-> t_Windows, release |-> r, version |-> <<"6", ".", "1">>] :
        r \in {<<"1", "0">>, <<"8", ".", "1">>, <<"V", "i", "s", "t", "a">>, <<"X", "P">>}}

get_windows_version(p) ==
    IF p.system = t_Windows
    THEN LET hits == {k \in 1..Len(version_map) :
                         IsSubstring(version_map[k].key, Lower(p.release))}
         IN  IF hits # {} THEN version_map[Nth(hits, 1)].value
             ELSE t_Windows \o <<" ">> \o p.release \o <<" ", "(">> \o p.version \o <<")">>
    ELSE <<"N", "o", "t", " ">> \o t_Windows

\* What a library query that returns a name does: the name, or an OS error
NameOutcomes ==
    { [exc |-> "OSError", val |-> "Unknown"], [exc |-> "none", val |-> "name"] }

\* The three name probes: the query's value, "Unknown" for the exceptions
\* the probe names, the exception itself for any other
name_probe(classes, o) ==
    IF o.exc = "none" THEN [exc |-> "none", val |-> o.val]
    ELSE IF Catches(classes, o.exc) THEN [exc |-> "none", val |-> "Unknown"]
    ELSE [exc |-> o.exc, val |-> "Unknown"]

get_computer_name(o) == name_probe({"OSError"}, o)

get_username(o) == name_probe({"OSError", "FileNotFoundError", "PermissionError"}, o)

get_processor_architecture(o) == name_probe({"AttributeError", "OSError"}, o)

MiB == 1048576

\* What psutil.virtual_memory() does: an OS error, or the byte counts
VirtualMemoryOutcomes ==
    { [exc |-> "OSError", total |-> 0, available |-> 0, percent |-> 0],
      [exc |-> "none", total |-> 2000000000, available |-> 500000000, percent |-> 75] }

\* What psutil.swap_memory() does
SwapMemoryOutcomes ==
    { [exc |-> "OSError", total |-> 0, used |-> 0, free |-> 0],
      [exc |-> "none", total |-> 100000000, used |-> 30000000, free |-> 70000000] }

PsutilCaught == {"OSError", "AttributeError", "NotImplementedError"}

get_memory_info_win(vm) ==
    IF vm.exc = "none"
    THEN [exc |-> "none", log |-> <<>>,
          val |-> <<vm.total \div MiB, vm.available \div MiB, vm.percent>>]
    ELSE IF Catches(PsutilCaught, vm.exc)
    THEN [exc |-> "none", log |-> <<"Error getting memory info">>, val |-> <<0, 0, 0>>]
    ELSE [exc |-> vm.exc, log |-> <<>>, val |-> <<0, 0, 0>>]

get_pagefile_info(sw) ==
    IF sw.exc = "none"
    THEN [exc |-> "none", log |-> <<>>, val |-> <<sw.used \div MiB, sw.total \div MiB>>]
    ELSE IF Catches(PsutilCaught, sw.exc)
    THEN [exc |-> "none", log |-> <<"Error getting pagefile info">>, val |-> <<0, 0>>]
    ELSE [exc |-> sw.exc, log |-> <<>>, val |-> <<0, 0>>]

get_virtual_memory_size(vm, sw) ==
    IF vm.exc = "none" /\ sw.exc = "none"
    THEN [exc |-> "none", val |-> (vm.total + sw.total) \div MiB]
    ELSE LET e == IF vm.exc # "none" THEN vm.exc ELSE sw.exc
         IN  IF Catches(PsutilCaught, e) THEN [exc |-> "none", val |-> 0]
             ELSE [exc |-> e, val |-> 0]

----------------------------------------------------------------------------
(* main() of sys-info-linux.py                                              *)

\* What each probe can return to main, over all the inputs of the model
LoadAvgResults == {get_load_average(f) : f \in LoadAvgFiles}

OsInfoResults == {get_os_info(e) : e \in OsEnvs}

SwapTotals == {swap_total(f) : f \in SwapFiles}

DiskInfoResults == {get_disk_info(e) : e \in DiskEnvs}

\* The helpers of main's steps
Line(field) == [field |-> field]

Emit(lines) == out' = out \o lines

Call(names) == calls' = calls \o names

\* An exception leaves main: the interpreter prints a traceback and exits 1
Traceback == pc' = "exit" /\ exit_code' = 1

Goto(label) == pc' = label /\ UNCHANGED exit_code

\* The RAM line with the kilobytes divided by 1000
ram_line_decimal(mem_info) ==
    LET mem_total     == DictGet(mem_info, k_MemTotal, 0)
        mem_available == DictGet(mem_info, k_MemAvailable,
                                 DictGet(mem_info, k_MemFree, 0))
    IN  IF mem_total > 0
        THEN [field |-> "RAM", form |-> "counters",
              free |-> mem_available \div 1000, total |-> mem_total \div 1000]
        ELSE [field |-> "RAM", form |-> "none", free |-> 0, total |-> 0]

\* Lines 182-187: the RAM line from the counters, when MemTotal is usable
ram_line(mem_info) ==
    LET mem_total     == DictGet(mem_info, k_MemTotal, 0)
        mem_available == DictGet(mem_info, k_MemAvailable,
                                 DictGet(mem_info, k_MemFree, 0))
    IN  IF mem_total > 0
        THEN [field |-> "RAM", form |-> "counters",
              free |-> mem_available \div 1024, total |-> mem_total \div 1024]
        ELSE [field |-> "RAM", form |-> "none", free |-> 0, total |-> 0]

\* A host without /proc/meminfo
NoMemInfo == [open_ok |-> FALSE, content |-> <<>>]

InitLinux ==
    /\ plat = "linux"
    /\ host \in [meminfo : MemInfoFiles, psutil : BOOLEAN]
    /\ pc = "l161" /\ locals = EmptyDict
    /\ out = <<>> /\ calls = <<>> /\ exit_code = -1

\* uname = platform.uname()
main_l161 ==
    /\ plat = "linux" /\ pc = "l161"
    /\ locals' = DictSet(locals, "uname", "uname")
    /\ Call(<<"platform.uname">>)
    /\ Goto("l162")
    /\ UNCHANGED <<plat, host, out, probe, arg, ret>>

\* mem_info = get_memory_info()
main_l162 ==
    /\ plat = "linux" /\ pc = "l162"
    /\ locals' = DictSet(locals, "mem_info", get_memory_info(host.meminfo))
    /\ Call(<<"get_memory_info">>)
    /\ Goto("l163")
    /\ UNCHANGED <<plat, host, out, probe, arg, ret>>

\* load_avg = get_load_average()
main_l163 ==
    /\ plat = "linux" /\ pc = "l163"
    /\ \E load_avg \in LoadAvgResults :
          locals' = DictSet(locals, "load_avg", load_avg)
    /\ Call(<<"get_load_average">>)
    /\ Goto("l166")
    /\ UNCHANGED <<plat, host, out, probe, arg, ret>>

\* os_info = get_os_info(); print(f"OS: {os_info}")
main_l166 ==
    /\ plat = "linux" /\ pc = "l166"
    /\ \E os_info \in OsInfoResults : Emit(<<Line("OS")>>)
    /\ Call(<<"get_os_info">>)
    /\ Goto("l170")
    /\ UNCHANGED <<plat, host, locals, probe, arg, ret>>

\* Lines 170-179: Kernel, Architecture and Hostname from uname, then
\* getpass.getuser(), which returns a name or raises (no user name in the
\* environment and none in the password database)
main_l170 ==
    /\ plat = "linux" /\ pc = "l170"
    /\ Call(<<"getpass.getuser">>)
    /\ \E getuser \in NameOutcomes :
          IF getuser.exc = "none"
          THEN /\ Emit(<<Line("Kernel"), Line("Architecture"), Line("Hostname"),
                          Line("User")>>)
               /\ Goto("l182")
          ELSE /\ Emit(<<Line("Kernel"), Line("Architecture"), Line("Hostname")>>)
               /\ Traceback
    /\ UNCHANGED <<plat, host, locals, probe, arg, ret>>

\* Lines 182-196: the RAM line; without a usable MemTotal, psutil if it can
\* be imported (psutil.virtual_memory() is not inside an except that would
\* catch what it raises)
main_l182 ==
    /\ plat = "linux" /\ pc = "l182"
    /\ LET ram == ram_line(locals["mem_info"])
       IN  IF ram.form = "counters"
           THEN Emit(<<ram>>) /\ Goto("l199") /\ UNCHANGED calls
           ELSE IF ~host.psutil
           THEN /\ Emit(<<[field |-> "RAM", form |-> "unavailable"]>>)
                /\ Goto("l199") /\ UNCHANGED calls
           ELSE /\ Call(<<"psutil.virtual_memory">>)
                /\ \E memory \in VirtualMemoryOutcomes :
                      IF memory.exc = "none"
                      THEN Emit(<<[field |-> "RAM", form |-> "psutil"]>>) /\ Goto("l199")
                      ELSE Traceback /\ UNCHANGED out
    /\ UNCHANGED <<plat, host, locals, probe, arg, ret>>

\* Lines 199-208: the Swap line; with swap_total = 0, psutil as above
main_l199 ==
    /\ plat = "linux" /\ pc = "l199"
    /\ \E table \in SwapTotals :
          LET swap == get_swap_info(table, host.meminfo)
              inner == IF Len(swap.reads) = 2 THEN <<"get_memory_info">> ELSE <<>>
          IN  IF swap.total > 0
              THEN /\ Emit(<<[field |-> "Swap", form |-> "counters"]>>)
                   /\ Call(<<"get_swap_info">> \o inner)
                   /\ Goto("l211")
              ELSE IF ~host.psutil
              THEN /\ Emit(<<[field |-> "Swap", form |-> "unavailable"]>>)
                   /\ Call(<<"get_swap_info">> \o inner)
                   /\ Goto("l211")
              ELSE /\ Call(<<"get_swap_info">> \o inner \o <<"psutil.swap_memory">>)
                   /\ \E sw \in SwapMemoryOutcomes :
                         IF sw.exc = "none"
                         THEN Emit(<<[field |-> "Swap", form |-> "psutil"]>>) /\ Goto("l211")
                         ELSE Traceback /\ UNCHANGED out
    /\ UNCHANGED <<plat, host, locals, probe, arg, ret>>

\* Lines 211-215: the Virtual memory line
main_l211 ==
    /\ plat = "linux" /\ pc = "l211"
    /\ LET vmalloc_total == DictGet(locals["mem_info"], k_VmallocTotal, 0)
       IN  Emit(<<[field |-> "Virtual memory",
                    form |-> IF vmalloc_total > 0 THEN "counters" ELSE "unavailable"]>>)
    /\ Goto("l218")
    /\ UNCHANGED <<plat, host, locals, calls, probe, arg, ret>>

\* Lines 218-222: os.cpu_count() returns a count or None; either is printed
main_l218 ==
    /\ plat = "linux" /\ pc = "l218"
    /\ \E processors \in LogicalOutcomes : Emit(<<Line("Processors")>>)
    /\ Call(<<"os.cpu_count">>)
    /\ Goto("l225")
    /\ UNCHANGED <<plat, host, locals, probe, arg, ret>>

\* Line 225: load_avg[0], load_avg[1], load_avg[2]; a list shorter than
\* three raises IndexError
main_l225 ==
    /\ plat = "linux" /\ pc = "l225"
    /\ IF Len(locals["load_avg"]) >= 3
       THEN Emit(<<Line("Load average")>>) /\ Goto("l228")
       ELSE Traceback /\ UNCHANGED out
    /\ UNCHANGED <<plat, host, locals, calls, probe, arg, ret>>

\* Lines 228-236: drives = get_disk_info(), the Drives header and one line
\* per drive, or the line saying there is none
main_l228 ==
    /\ plat = "linux" /\ pc = "l228"
    /\ \E drives \in DiskInfoResults :
          Emit(<<Line("Drives")>> \o
                (IF drives # <<>> THEN [k \in 1..Len(drives) |-> Line("drive")]
                 ELSE <<Line("No drives found")>>))
    /\ Call(<<"get_disk_info">>)
    /\ pc' = "exit" /\ exit_code' = 0
    /\ UNCHANGED <<plat, host, locals, probe, arg, ret>>

NextLinux ==
    \/ main_l161 \/ main_l162 \/ main_l163 \/ main_l166 \/ main_l170
    \/ main_l182 \/ main_l199 \/ main_l211 \/ main_l218 \/ main_l225
    \/ main_l228

----------------------------------------------------------------------------
(* main() of sys-info-win.py                                                *)

DrivesResults == {get_drives_info(e) : e \in DriveEnvs}

ProcessorCountResults ==
    {get_processor_count(p, l) : p \in PhysOutcomes, l \in LogicalOutcomes}

InitWindows ==
    /\ plat = "windows"
    /\ host = [meminfo |-> NoMemInfo, psutil |-> TRUE]
    /\ pc = "w169" /\ locals = EmptyDict
    /\ out = <<>> /\ calls = <<>> /\ exit_code = -1

\* One assignment `name = probe()` of lines 169-180: r is what the probe
\* returned (its value, the lines it printed, the exception that left it)
WinStep(label, next, name, probe_name, r) ==
    /\ plat = "windows" /\ pc = label
    /\ Call(<<probe_name>>)
    /\ IF r.exc = "none"
       THEN /\ locals' = DictSet(locals, name, r.val)
            /\ Emit([k \in 1..Len(r.log) |-> Line(r.log[k])])
            /\ Goto(next)
       ELSE Traceback /\ UNCHANGED <<locals, out>>
    /\ UNCHANGED <<plat, host, probe, arg, ret>>

Returned(v) == [exc |-> "none", log |-> <<>>, val |-> v]

main_w169 ==
    /\ pc = "w169"
    /\ \E p \in Platforms :
           WinStep("w169", "w170", "windows_version", "get_windows_version",
                   Returned(get_windows_version(p)))

main_w170 ==
    /\ pc = "w170"
    /\ \E o \in NameOutcomes :
           WinStep("w170", "w171", "computer_name", "get_computer_name",
                   get_computer_name(o) @@ [log |-> <<>>])

main_w171 ==
    /\ pc = "w171"
    /\ \E o \in NameOutcomes :
           WinStep("w171", "w172", "username", "get_username",
                   get_username(o) @@ [log |-> <<>>])

main_w172 ==
    /\ pc = "w172"
    /\ \E o \in NameOutcomes :
           WinStep("w172", "w175", "architecture", "get_processor_architecture",
                   get_processor_architecture(o) @@ [log |-> <<>>])

\* Lines 175-176
main_w175 ==
    /\ pc = "w175"
    /\ \E vm \in VirtualMemoryOutcomes :
           WinStep("w175", "w177", "memory", "get_memory_info", get_memory_info_win(vm))

main_w177 ==
    /\ pc = "w177"
    /\ \E sw \in SwapMemoryOutcomes :
           WinStep("w177", "w178", "pagefile", "get_pagefile_info", get_pagefile_info(sw))

main_w178 ==
    /\ pc = "w178"
    /\ \E r \in ProcessorCountResults :
           WinStep("w178", "w179", "processor_count", "get_processor_count",
                   Returned(r.val))

main_w179 ==
    /\ pc = "w179"
    /\ \E vm \in VirtualMemoryOutcomes, sw \in SwapMemoryOutcomes :
           WinStep("w179", "w180", "virtual_memory_mb", "get_virtual_memory_size",
                   get_virtual_memory_size(vm, sw) @@ [log |-> <<>>])

main_w180 ==
    /\ pc = "w180"
    /\ \E r \in DrivesResults :
           WinStep("w180", "w183", "drives", "get_drives_info",
                   [exc |-> r.exc, log |-> r.log, val |-> r.drives])

\* Lines 183-200: the report
main_w183 ==
    /\ plat = "windows" /\ pc = "w183"
    /\ Emit(<<Line("OS"), Line("Computer Name"), Line("User"), Line("Architecture"),
               Line("RAM"), Line("Virtual Memory"), Line("Memory Load"),
               Line("Pagefile"), Line("Processors"), Line("Drives")>> \o
             (IF locals["drives"] # <<>>
              THEN [k \in 1..Len(locals["drives"]) |-> Line("drive")]
              ELSE <<Line("No drives found")>>))
    /\ pc' = "exit" /\ exit_code' = 0
    /\ UNCHANGED <<plat, host, locals, calls, probe, arg, ret>>

NextWindows ==
    \/ main_w169 \/ main_w170 \/ main_w171 \/ main_w172 \/ main_w175
    \/ main_w177 \/ main_w178 \/ main_w179 \/ main_w180 \/ main_w183

----------------------------------------------------------------------------
(* One run of a reporter                                                    *)

Init ==
    /\ InitLinux \/ InitWindows
    /\ probe = "none" /\ arg = <<>> /\ ret = <<>>

Next == NextLinux \/ NextWindows

Spec == Init /\ [][Next]_vars

----------------------------------------------------------------------------
(* Probes applied on their own                                              *)

IdleMain ==
    /\ plat = "none" /\ host = [meminfo |-> NoMemInfo, psutil |-> FALSE]
    /\ pc = "idle" /\ locals = EmptyDict
    /\ out = <<>> /\ calls = <<>> /\ exit_code = -1

InitProbe ==
    /\ IdleMain
    /\ probe = "none" /\ arg = <<>> /\ ret = <<>>

Applied(name, input, result) ==
    /\ probe' = name
    /\ arg' = input
    /\ ret' = result
    /\ UNCHANGED <<plat, host, pc, locals, out, calls, exit_code>>

Apply_get_load_average ==
    /\ probe = "none"
    /\ \E file \in LoadAvgFiles :
           Applied("get_load_average", file, get_load_average(file))

Apply_get_memory_info ==
    /\ probe = "none"
    /\ \E file \in MemInfoFiles :
           Applied("get_memory_info", file, get_memory_info(file))

Apply_get_os_info ==
    /\ probe = "none"
    /\ \E env \in OsEnvs : Applied("get_os_info", env, get_os_info(env))

Apply_get_swap_info ==
    /\ probe = "none"
    /\ \E swaps \in SwapFiles, mem \in MemInfoFiles :
           Applied("get_swap_info", [swaps |-> swaps, meminfo |-> mem],
                   get_swap_info(swap_total(swaps), mem))

Apply_get_disk_info ==
    /\ probe = "none"
    /\ \E env \in DiskEnvs : Applied("get_disk_info", env, get_disk_info(env))

Apply_get_drives_info ==
    /\ probe = "none"
    /\ \E env \in DriveEnvs : Applied("get_drives_info", env, get_drives_info(env))

Apply_get_processor_count ==
    /\ probe = "none"
    /\ \E phys \in PhysOutcomes, logical \in LogicalOutcomes :
           Applied("get_processor_count", [phys |-> phys, logical |-> logical],
                   get_processor_count(phys, logical))

NextProbe ==
    \/ Apply_get_load_average
    \/ Apply_get_memory_info
    \/ Apply_get_os_info
    \/ Apply_get_swap_info
    \/ Apply_get_disk_info
    \/ Apply_get_drives_info
    \/ Apply_get_processor_count

ProbeSpec == InitProbe /\ [][NextProbe]_vars

Range(f) == {f[i] : i \in DOMAIN f}

----------------------------------------------------------------------------
(* Claims about a run of a reporter, checked under Spec                     *)

\* The field names of the lines printed so far
PrintedFields == {out[i].field : i \in 1..Len(out)}

\* The field lines of a complete report
ReportFields ==
    IF plat = "linux"
    THEN {"OS", "Kernel", "Architecture", "Hostname", "User", "RAM", "Swap",
          "Virtual memory", "Processors", "Load average", "Drives"}
    ELSE {"OS", "Computer Name", "User", "Architecture", "RAM", "Virtual Memory",
          "Memory Load", "Pagefile", "Processors", "Drives"}

\* C1: whatever the probes return and whichever library calls fail, main()
\* of either reporter runs to completion: when the process ends the exit
\* status is 0 and every field line has been printed.
C1_RunsToCompletion ==
    pc = "exit" => exit_code = 0 /\ ReportFields \subseteq PrintedFields

\* The probes main() calls, in the order of its statements
ProbeOrder ==
    IF plat = "linux"
    THEN <<"get_memory_info", "get_load_average", "get_os_info", "get_swap_info",
           "get_disk_info">>
    ELSE <<"get_windows_version", "get_computer_name", "get_username",
           "get_processor_architecture", "get_memory_info", "get_pagefile_info",
           "get_processor_count", "get_virtual_memory_size", "get_drives_info">>

\* The same with the Linux memory probe called again from the swap probe
ProbeOrderReread ==
    <<"get_memory_info", "get_load_average", "get_os_info", "get_swap_info",
      "get_memory_info", "get_disk_info">>

IsProbe(name) == name \in Range(ProbeOrder)

\* The probe invocations of the run so far, in order
ProbeCalls == SelectSeq(calls, IsProbe)

IsPrefix(s, t) == Len(s) <= Len(t) /\ s = SubSeq(t, 1, Len(s))

Completed == pc = "exit" /\ exit_code = 0

\* The Swap line of the report, once printed
SwapLines_out == {i \in 1..Len(out) : out[i].field = "Swap"}

CounterLines ==
    LET lines == IF host.meminfo.open_ok THEN FileLines(host.meminfo.content) ELSE <<>>
    IN  {[key |-> SplitOnce(lines[i], ":")[1],
          kb  |-> DigitsValue(Split(SplitOnce(lines[i], ":")[2])[1], 0)] :
            i \in {j \in 1..Len(lines) :
                      /\ Contains(lines[j], ":")
                      /\ Len(Split(SplitOnce(lines[j], ":")[2])) = 2
                      /\ Split(SplitOnce(lines[j], ":")[2])[2] = <<"k", "B">>
                      /\ Range(Split(SplitOnce(lines[j], ":")[2])[1]) \subseteq Digits}}

\* The RAM line of the report, once printed
RamLines == {i \in 1..Len(out) : out[i].field = "RAM"}

PastRam == pc \in {"l199", "l211", "l218", "l225", "l228"} \/ Completed

\* C8: whenever the mapping of the Linux memory probe has MemTotal > 0, the
\* RAM line prints floor(avail / 1024) free and floor(MemTotal / 1024)
\* total, avail being MemAvailable, or MemFree when MemAvailable is absent;
\* every value of the mapping is the integer of a `Key: N kB` line of
\* /proc/meminfo, unit discarded; MemTotal 16000000 and MemAvailable
\* 8000000 print 7812 and 15625.
C8_RamLine ==
    (plat = "linux" /\ "mem_info" \in DOMAIN locals) =>
        LET mem_info == locals["mem_info"]
            avail == IF k_MemAvailable \in DOMAIN mem_info THEN mem_info[k_MemAvailable]
                     ELSE DictGet(mem_info, k_MemFree, 0)
        IN  /\ \A k \in DOMAIN mem_info : [key |-> k, kb |-> mem_info[k]] \in CounterLines
            /\ DictGet(mem_info, k_MemTotal, 0) > 0 =>
                  /\ PastRam => RamLines # {}
                  /\ \A i \in RamLines :
                        /\ out[i].form = "counters"
                        /\ out[i].total * 1024 <= mem_info[k_MemTotal]
                        /\ mem_info[k_MemTotal] < (out[i].total + 1) * 1024
                        /\ out[i].free * 1024 <= avail
                        /\ avail < (out[i].free + 1) * 1024
                        /\ (mem_info[k_MemTotal] = 16000000 /\ avail = 8000000) =>
                              out[i].free = 7812 /\ out[i].total = 15625

\* The report of a host whose /proc/meminfo has MemTotal 16000000,
\* MemFree 4000000 and MemAvailable 8000000: RAM 7812 free / 15625 total
C8_Witness ==
    /\ plat = "linux" /\ "mem_info" \in DOMAIN locals
    /\ {[key |-> k_MemTotal, kb |-> 16000000], [key |-> k_MemFree, kb |-> 4000000],
        [key |-> k_MemAvailable, kb |-> 8000000]} \subseteq CounterLines
    /\ \E i \in RamLines :
          out[i].form = "counters" /\ out[i].free = 7812 /\ out[i].total = 15625

----------------------------------------------------------------------------
(* Claims about single probes, checked under ProbeSpec                      *)

\* The fields of /proc/loadavg as the probe call found it
LoadFields == IF arg.open_ok THEN Split(arg.content) ELSE <<>>

LoadUsable ==
    /\ arg.open_ok
    /\ Len(LoadFields) >= 3
    /\ \A i \in 1..3 : PyFloat(LoadFields[i]).exc = "none"

\* C2: for every content of /proc/loadavg, get_load_average returns exactly
\* three floating-point samples, the first three fields in order; whenever
\* the file is missing, unreadable, empty, malformed or has fewer than three
\* fields, the result is [0.0, 0.0, 0.0].
C2_LoadAverageThreeSamples ==
    probe = "get_load_average" =>
        /\ Len(ret) = 3
        /\ LoadUsable => \A i \in 1..3 : ret[i] = PyFloat(LoadFields[i]).val
        /\ ~LoadUsable => ret = ZeroLoad

\* What the file stage and the command stage of get_os_info have to offer
OsReleaseReadable == arg.exists /\ arg.open_ok

OsReleaseKeys ==
    IF OsReleaseReadable THEN parse_os_release(arg.content) ELSE EmptyDict

LsbSucceeds ==
    /\ arg.lsb.exc = "none"
    /\ arg.lsb.returncode = 0
    /\ Contains(arg.lsb.stdout, ":")

\* C3: get_os_info returns the result of the first stage that succeeds, in
\* the order PRETTY_NAME, then NAME and VERSION joined by a space, then the
\* text after the first colon of the lsb_release -d output; a failure at
\* any stage, a failure to read /etc/os-release included, moves on to the
\* next stage; "Unknown" is returned only when every stage has failed.
C3_OsInfoFallbackChain ==
    probe = "get_os_info" =>
        ret = IF k_PRETTY_NAME \in DOMAIN OsReleaseKeys
              THEN OsReleaseKeys[k_PRETTY_NAME]
              ELSE IF {k_NAME, k_VERSION} \subseteq DOMAIN OsReleaseKeys
              THEN OsReleaseKeys[k_NAME] \o <<" ">> \o OsReleaseKeys[k_VERSION]
              ELSE IF LsbSucceeds
              THEN Strip(SplitOnce(arg.lsb.stdout, ":")[2])
              ELSE t_Unknown

\* C6: in the Windows get_processor_count, whenever the physical-core query
\* delivers no count (it raises, or it returns None), the logical-count
\* query is attempted before 0 is returned; 0 is returned only after both
\* queries have failed.
C6_LogicalCountFallback ==
    probe = "get_processor_count" =>
        LET noPhys    == arg.phys.exc # "none" \/ arg.phys.val.none
            noLogical == arg.logical.exc # "none" \/ arg.logical.val.none
        IN  /\ noPhys => "os.cpu_count" \in Range(ret.queries)
            /\ ret.val = 0 => noPhys /\ noLogical

\* The records of the mount table a get_disk_info call read, and for the
\* i-th of them: its fields, and whether the call emitted an entry for it
\* (the list grows when the table is extended by that record).
MountRecords == IF arg.mounts.open_ok THEN FileLines(arg.mounts.content) ELSE <<>>

MountFields(i) == Split(MountRecords[i])

Emitted(i) ==
    Len(disk_loop(SubSeq(MountRecords, 1, i), arg.statvfs, 1, <<>>))
        > Len(disk_loop(SubSeq(MountRecords, 1, i - 1), arg.statvfs, 1, <<>>))

\* The file system is exactly 50 GB
FiftyGB(st) == st.exc = "none" /\ st.f_blocks = 50 * (GiB \div st.f_frsize)

\* The file system is 0.05 GB to the nearest hundredth
TwentiethGB(st) ==
    /\ st.exc = "none"
    /\ LET d == GiB \div st.f_frsize
           h == (st.f_blocks * 100) \div d
           r == (st.f_blocks * 100) % d
       IN  (IF 2 * r >= d THEN h + 1 ELSE h) = 5

\* C4 as stated: for every record with at least 4 fields, a tmpfs record is
\* never emitted; an ext4 record of 50 GB is always emitted, whatever its
\* device and mount point; a record of 0.05 GB is never emitted.
C4_MountFilterAsStated ==
    probe = "get_disk_info" =>
        \A i \in 1..Len(MountRecords) :
            Len(MountFields(i)) >= 4 =>
                /\ MountFields(i)[3] = t_tmpfs => ~Emitted(i)
                /\ MountFields(i)[3] = t_ext4 /\ FiftyGB(arg.statvfs[i]) => Emitted(i)
                /\ TwentiethGB(arg.statvfs[i]) => ~Emitted(i)

\* C4 (amended): as stated, except that the ext4 record of 50 GB is emitted
\* provided its device does not start with /dev/loop, udev or none.
C4_MountFilter ==
    probe = "get_disk_info" =>
        \A i \in 1..Len(MountRecords) :
            Len(MountFields(i)) >= 4 =>
                /\ MountFields(i)[3] = t_tmpfs => ~Emitted(i)
                /\ ( /\ MountFields(i)[3] = t_ext4
                     /\ FiftyGB(arg.statvfs[i])
                     /\ ~virtual_device(MountFields(i)[1]) ) => Emitted(i)
                /\ TwentiethGB(arg.statvfs[i]) => ~Emitted(i)

\* A table with a 50 GB tmpfs record that is dropped and a 50 GB ext4
\* record on a disk device that is emitted
C4_Witness ==
    /\ probe = "get_disk_info"
    /\ Len(MountRecords) = 2
    /\ \E i, j \in 1..2 :
          /\ Len(MountFields(i)) >= 4 /\ MountFields(i)[3] = t_tmpfs
          /\ FiftyGB(arg.statvfs[i]) /\ ~Emitted(i)
          /\ Len(MountFields(j)) >= 4 /\ MountFields(j)[3] = t_ext4
          /\ FiftyGB(arg.statvfs[j]) /\ Emitted(j)

\* The swap table a get_swap_info call read: its lines after the first
SwapTable == FileLines(arg.swaps.content)

NonHeaderLines == IF SwapTable = <<>> THEN <<>> ELSE Tail(SwapTable)

\* Sum of the third field over the lines of ls that have at least n fields
\* (a field that is no integer counts 0)
RECURSIVE ThirdColumnSum(_, _)
ThirdColumnSum(ls, n) ==
    IF ls = <<>> THEN 0
    ELSE LET parts == Split(Head(ls))
         IN  (IF Len(parts) >= n THEN PyInt(parts[3]).val ELSE 0)
                 + ThirdColumnSum(Tail(ls), n)

SwapFreeCounter == DictGet(get_memory_info(arg.meminfo), k_SwapFree, 0)

\* C5 as stated: the total is the sum of the third column over all
\* non-header lines; with no swap partition the total is 0 and the free
\* value is SwapFree (0 if absent); only a failure to read the table gives
\* the pair (0, 0) in place of these.
C5_SwapTotalAsStated ==
    probe = "get_swap_info" =>
        IF arg.swaps.open_ok
        THEN /\ ret.total = ThirdColumnSum(NonHeaderLines, 3)
             /\ ret.free = SwapFreeCounter
        ELSE ret.total = 0 /\ ret.free = 0

\* The summed lines all carry an integer in their third field
SwapSizesParse ==
    \A i \in 1..Len(NonHeaderLines) :
        Len(Split(NonHeaderLines[i])) >= 4 =>
            PyInt(Split(NonHeaderLines[i])[3]).exc = "none"

\* C5 (amended): the total is the sum of the third column over the
\* non-header lines that have at least four fields, and the free value is
\* SwapFree (0 if absent); the pair is (0, 0) when the table cannot be read
\* or one of those lines has a third field that is not an integer.
C5_SwapTotal ==
    probe = "get_swap_info" =>
        IF arg.swaps.open_ok /\ SwapSizesParse
        THEN /\ ret.total = ThirdColumnSum(NonHeaderLines, 4)
             /\ ret.free = SwapFreeCounter
        ELSE ret.total = 0 /\ ret.free = 0

\* Two swap areas summed, and SwapFree taken from the counters
C5_Witness ==
    /\ probe = "get_swap_info"
    /\ Len(NonHeaderLines) = 2
    /\ ret.total = 2097148 + 1048576
    /\ ret.free = 2097148

\* The records of a mount table for which the probe has an entry to emit:
\* not filtered by type or device, statistics obtained, at least 0.1 GB
EligibleMounts ==
    {i \in 1..Len(MountRecords) :
        /\ Len(MountFields(i)) >= 4
        /\ MountFields(i)[3] \notin special_fs
        /\ ~virtual_device(MountFields(i)[1])
        /\ arg.statvfs[i].exc = "none"
        /\ arg.statvfs[i].f_blocks * 10 >= GiB \div arg.statvfs[i].f_frsize}

\* The partitions for which the Windows probe has an entry to emit
EligiblePartitions ==
    {i \in 1..Len(arg.partitions) :
        /\ ~IsSubstring(t_cdrom, arg.partitions[i].opts)
        /\ arg.partitions[i].device # <<>>
        /\ arg.usage[i].exc = "none"}

\* C9: in both disk probes the result holds one entry per eligible item, in
\* the original order, whatever subset of the items the capacity query fails
\* on; a failure on one item drops no later item and does not abort the
\* probe.
C9_PerItemFailureIsolated ==
    /\ probe = "get_disk_info" =>
          /\ Len(ret) = Cardinality(EligibleMounts)
          /\ \A k \in 1..Len(ret) :
                /\ ret[k].mount_point = MountFields(Nth(EligibleMounts, k))[2]
                /\ ret[k].fs_type = MountFields(Nth(EligibleMounts, k))[3]
    /\ probe = "get_drives_info" =>
          /\ ret.exc = "none"
          /\ Len(ret.drives) = Cardinality(EligiblePartitions)
          /\ \A k \in 1..Len(ret.drives) :
                /\ ret.drives[k].drive = arg.partitions[Nth(EligiblePartitions, k)].device
                /\ ret.drives[k].total_gb
                       = arg.usage[Nth(EligiblePartitions, k)].total \div GiB

\* The capacity query fails on the first mount and the second is emitted
C9_Witness ==
    /\ probe = "get_disk_info"
    /\ Len(MountRecords) = 2
    /\ Len(MountFields(1)) >= 4
    /\ MountFields(1)[3] \notin special_fs
    /\ ~virtual_device(MountFields(1)[1])
    /\ arg.statvfs[1].exc # "none"
    /\ Len(ret) = 1
    /\ ret[1].mount_point = MountFields(2)[2]

\* C10: every entry emitted by get_disk_info (tenths of a GB) and by
\* get_drives_info (whole GB) has free_gb <= total_gb, for every capacity
\* statistic whose free count does not exceed its total count.
C10_FreeAtMostTotal ==
    /\ probe = "get_disk_info" =>
          \A k \in 1..Len(ret) : ret[k].free_gb <= ret[k].total_gb
    /\ probe = "get_drives_info" =>
          \A k \in 1..Len(ret.drives) : ret.drives[k].free_gb <= ret.drives[k].total_gb

\* An emitted entry whose statistic has fewer free blocks than blocks and
\* whose rounded values meet: 0.15 GB free of 0.25 GB, both printed 0.2
C10_Witness ==
    /\ probe = "get_disk_info"
    /\ \E k \in 1..Len(ret) :
          /\ ret[k].free_gb = ret[k].total_gb
          /\ \E i \in 1..Len(MountRecords) :
                /\ Emitted(i)
                /\ arg.statvfs[i].f_bfree < arg.statvfs[i].f_blocks
                /\ free_gb(arg.statvfs[i]) = ret[k].free_gb

============================================================================
